---- MODULE Spec2Model ----
(***************************************************************************)
(* Model of the DRS archive loader of src/src/drs.rs                       *)
(* (DrsFile::read_from_file and everything it calls).                      *)
(*                                                                         *)
(* A file is a sequence of bytes (0..255).  The loader is a state machine  *)
(* whose program counter pc walks through the statements of                *)
(* DrsFile::read_from_file: open, the 4-byte peek at offset 64, the        *)
(* rewind, variant detection, the header reads, header validation, the     *)
(* three reading loops and the index construction.  Sequences are 1-based  *)
(* here, so an index i of the code is i + 1 in the model; stream offsets   *)
(* (pos) keep the code's 0-based byte counts.                              *)
(***************************************************************************)
EXTENDS Integers, Sequences, FiniteSets, TLC

(* ------------------------------------------------------------------ *)
(* Bounds of the explored inputs                                       *)
(* ------------------------------------------------------------------ *)
MaxTables == 2
MaxFiles == 3
MaxSize == 1
MaxCut == 2

(* ------------------------------------------------------------------ *)
(* Program constants                                                   *)
(* ------------------------------------------------------------------ *)
EXPECTED_AOE_COPYRIGHT ==
  <<67, 111, 112, 121, 114, 105, 103, 104, 116, 32, 40, 99, 41, 32, 49, 57,
    57, 55, 32, 69, 110, 115, 101, 109, 98, 108, 101, 32, 83, 116, 117, 100,
    105, 111, 115, 46, 26>>
EXPECTED_AOE_VERSION == <<49, 46, 48, 48>>
EXPECTED_AOE_TYPE == <<116, 114, 105, 98, 101>>
AOE_COPYRIGHT_LEN == 40

EXPECTED_SWBG_COPYRIGHT ==
  <<67, 111, 112, 121, 114, 105, 103, 104, 116, 32, 40, 99, 41, 32, 50, 48,
    48, 49, 32, 76, 117, 99, 97, 115, 65, 114, 116, 115, 32, 69, 110, 116,
    101, 114, 116, 97, 105, 110, 109, 101, 110, 116, 32, 67, 111, 109, 112,
    97, 110, 121, 32, 76, 76, 67, 26>>
EXPECTED_SWBG_VERSION == <<49, 46, 48, 48>>
EXPECTED_SWBG_TYPE == <<115, 119, 98, 103>>
SWBG_COPYRIGHT_LEN == 60

VERSION_LEN == 4
TYPE_LEN == 12
DISCRIMINATOR_OFFSET == 64
DISCRIMINATOR_LEN == 4
RECORD_LEN == 12

TAG_BINARY == 1651076705
TAG_SLP == 1936486432
TAG_SHP == 1936224288
TAG_WAV == 2002875936

KnownTags == <<TAG_BINARY, TAG_SLP, TAG_SHP, TAG_WAV>>

(* ------------------------------------------------------------------ *)
(* Byte helpers                                                        *)
(* ------------------------------------------------------------------ *)
Max(a, b) == IF a >= b THEN a ELSE b

Zeros(n) == [i \in 1..n |-> 0]

(* little-endian encoding / decoding of an unsigned 32-bit value *)
LE32(v) ==
  <<v % 256, (v \div 256) % 256, (v \div 65536) % 256, (v \div 16777216) % 256>>

U32(b) == b[1] + 256 * b[2] + 65536 * b[3] + 16777216 * b[4]

(* read_exact: n bytes are available at offset p *)
CanRead(bytes, p, n) == p + n <= Len(bytes)

Take(bytes, p, n) == SubSeq(bytes, p + 1, p + n)

(* stream position after a read_exact of n bytes at p that hit end of file *)
EofPos(bytes, p) == Max(p, Len(bytes))

(* ------------------------------------------------------------------ *)
(* str::from_utf8 and str::trim on a byte buffer                       *)
(* ------------------------------------------------------------------ *)
IsCont(b) == b >= 128 /\ b <= 191

RECURSIVE IsUtf8(_)
IsUtf8(s) ==
  IF Len(s) = 0 THEN TRUE
  ELSE LET b == s[1]
           n == Len(s)
       IN  IF b < 128 THEN IsUtf8(Tail(s))
           ELSE IF b >= 194 /\ b <= 223
             THEN n >= 2 /\ IsCont(s[2]) /\ IsUtf8(SubSeq(s, 3, n))
           ELSE IF b >= 224 /\ b <= 239
             THEN /\ n >= 3
                  /\ IsCont(s[2]) /\ IsCont(s[3])
                  /\ (b = 224 => s[2] >= 160)
                  /\ (b = 237 => s[2] <= 159)
                  /\ IsUtf8(SubSeq(s, 4, n))
           ELSE IF b >= 240 /\ b <= 244
             THEN /\ n >= 4
                  /\ IsCont(s[2]) /\ IsCont(s[3]) /\ IsCont(s[4])
                  /\ (b = 240 => s[2] >= 144)
                  /\ (b = 244 => s[2] <= 143)
                  /\ IsUtf8(SubSeq(s, 5, n))
           ELSE FALSE

(* the encodings of the characters with the White_Space property *)
IsWhite(c) ==
  \/ Len(c) = 1 /\ (c[1] = 32 \/ (c[1] >= 9 /\ c[1] <= 13))
  \/ Len(c) = 2 /\ c[1] = 194 /\ (c[2] = 133 \/ c[2] = 160)
  \/ Len(c) = 3 /\ c[1] = 225 /\ c[2] = 154 /\ c[3] = 128
  \/ Len(c) = 3 /\ c[1] = 226 /\ c[2] = 128
       /\ ((c[3] >= 128 /\ c[3] <= 138) \/ c[3] = 168 \/ c[3] = 169 \/ c[3] = 175)
  \/ Len(c) = 3 /\ c[1] = 226 /\ c[2] = 129 /\ c[3] = 159
  \/ Len(c) = 3 /\ c[1] = 227 /\ c[2] = 128 /\ c[3] = 128

RECURSIVE TrimStart(_)
TrimStart(s) ==
  IF \E k \in 1..3 : k <= Len(s) /\ IsWhite(SubSeq(s, 1, k))
  THEN LET k == CHOOSE k \in 1..3 : k <= Len(s) /\ IsWhite(SubSeq(s, 1, k))
       IN  TrimStart(SubSeq(s, k + 1, Len(s)))
  ELSE s

RECURSIVE TrimEnd(_)
TrimEnd(s) ==
  IF \E k \in 1..3 : k <= Len(s) /\ IsWhite(SubSeq(s, Len(s) - k + 1, Len(s)))
  THEN LET k == CHOOSE k \in 1..3 :
                  k <= Len(s) /\ IsWhite(SubSeq(s, Len(s) - k + 1, Len(s)))
       IN  TrimEnd(SubSeq(s, 1, Len(s) - k))
  ELSE s

Trim(s) == TrimEnd(TrimStart(s))

(* ------------------------------------------------------------------ *)
(* Values of the loader                                                *)
(* ------------------------------------------------------------------ *)
NoResult == [kind |-> "None", tag |-> 0]
OkResult == [kind |-> "Ok", tag |-> 0]
IoError == [kind |-> "IoError", tag |-> 0]
InvalidDrs == [kind |-> "InvalidDrs", tag |-> 0]
(* expect() on a buffer that is not UTF-8: the thread panics *)
Utf8Panic == [kind |-> "Panic", tag |-> 0]
(* panic!("unknown file type encountered in DRS archive: 0x{:X}", tag) *)
FileTypePanic(tag) == [kind |-> "Panic", tag |-> tag]

(* Option<T> *)
None == <<>>
Some(x) == <<x>>

EmptyMap == [k \in {} |-> 0]

(* DrsHeader::empty() *)
EmptyHeader ==
  [copyright_info |-> [side |-> "Left", bytes |-> Zeros(AOE_COPYRIGHT_LEN)],
   file_version |-> Zeros(VERSION_LEN),
   file_type |-> Zeros(TYPE_LEN),
   table_count |-> 0,
   file_offset |-> 0]

(* DrsTableHeader::new() *)
NewTableHeader == [file_type |-> "Binary", table_offset |-> 0, file_count |-> 0]

(* DrsLogicalTable::new() *)
NewLogicalTable ==
  [header |-> NewTableHeader, entries |-> <<>>, contents |-> <<>>,
   index_map |-> EmptyMap]

(* DrsHeader::game_type *)
GameTypeOf(h) == IF h.copyright_info.side = "Left" THEN "AOE" ELSE "SWBG"

(* impl From<u32> for DrsFileType; "panic" stands for the panic! arm *)
FileTypeFrom(binary_val) ==
  IF binary_val = TAG_BINARY THEN "Binary"
  ELSE IF binary_val = TAG_SLP THEN "Slp"
  ELSE IF binary_val = TAG_SHP THEN "Shp"
  ELSE IF binary_val = TAG_WAV THEN "Wav"
  ELSE "panic"

(* DrsTableHeader::file_extension *)
FileExtension(h) ==
  CASE h.file_type = "Binary" -> "bin"
    [] h.file_type = "Slp" -> "slp"
    [] h.file_type = "Shp" -> "shp"
    [] h.file_type = "Wav" -> "wav"

(* validate_str with the comparison one byte short of the literal *)
validate_str_ShortCompare(bytes, expected) ==
  ~ (Len(bytes) < Len(expected)
       \/ SubSeq(bytes, 1, Len(expected) - 1) # SubSeq(expected, 1, Len(expected) - 1))

(* validate_str: TRUE when the code returns Ok(()) *)
validate_str(bytes, expected) ==
  ~ (Len(bytes) < Len(expected) \/ SubSeq(bytes, 1, Len(expected)) # expected)

(* an insert that keeps the mapping a key already has *)
MapInsert_KeepFirst(m, k, v) ==
  [x \in (DOMAIN m) \cup {k} |-> IF x \in DOMAIN m THEN m[x] ELSE v]

(* HashMap::insert *)
MapInsert(m, k, v) == [x \in (DOMAIN m) \cup {k} |-> IF x = k THEN v ELSE m[x]]

(* DrsLogicalTable::populate_index_map: the loop from entry i on *)
RECURSIVE IndexFrom(_, _, _)
IndexFrom(entries, i, m) ==
  IF i > Len(entries) THEN m
  ELSE IndexFrom(entries, i + 1, MapInsert(m, entries[i].file_id, i))

populate_index_map(t) ==
  [t EXCEPT !.index_map = IndexFrom(t.entries, 1, t.index_map)]

(* DrsLogicalTable::find_file_contents *)
find_file_contents(t, file_id) ==
  IF file_id \in DOMAIN t.index_map
  THEN Some(t.contents[t.index_map[file_id]])
  ELSE None

(* DrsFile::find_table: the first table of the requested type *)
find_table(tabs, file_type) ==
  IF \E i \in 1..Len(tabs) : tabs[i].header.file_type = file_type
  THEN LET i == CHOOSE i \in 1..Len(tabs) :
                  /\ tabs[i].header.file_type = file_type
                  /\ \A j \in 1..(i - 1) : tabs[j].header.file_type # file_type
       IN  Some(tabs[i])
  ELSE None

(* ------------------------------------------------------------------ *)
(* The loader, one statement group at a time.  Each operator maps the  *)
(* loader state s (a record of the variables below) to the next one.   *)
(* ------------------------------------------------------------------ *)
Fail(s, err, p) == [s EXCEPT !.pc = "done", !.result = err, !.pos = p]

CopyrightLen(game_type) ==
  IF game_type = "SWBG" THEN SWBG_COPYRIGHT_LEN ELSE AOE_COPYRIGHT_LEN

HeaderLen(game_type) == CopyrightLen(game_type) + VERSION_LEN + TYPE_LEN + 4 + 4

(* File::open *)
OpenStep(bytes, ex, s) ==
  IF ex THEN [s EXCEPT !.pc = "peek"] ELSE Fail(s, IoError, s.pos)

(* seek(Start(64)); read_exact(type_str_buf) *)
PeekStep(bytes, s) ==
  IF CanRead(bytes, DISCRIMINATOR_OFFSET, DISCRIMINATOR_LEN)
  THEN [s EXCEPT !.type_str_buf = Take(bytes, DISCRIMINATOR_OFFSET, DISCRIMINATOR_LEN),
                 !.pos = DISCRIMINATOR_OFFSET + DISCRIMINATOR_LEN,
                 !.pc = "rewind"]
  ELSE Fail(s, IoError, EofPos(bytes, DISCRIMINATOR_OFFSET))

(* seek(Start(0)) *)
RewindStep(s) == [s EXCEPT !.pos = 0, !.pc = "detect"]

(* from_utf8(..).expect(..); type_str.trim() == "swbg" *)
DetectStep(s) ==
  IF ~ IsUtf8(s.type_str_buf) THEN Fail(s, Utf8Panic, s.pos)
  ELSE [s EXCEPT !.game_type = IF Trim(s.type_str_buf) = EXPECTED_SWBG_TYPE
                                THEN "SWBG" ELSE "AOE",
                 !.pc = "header"]

(* the five sequential reads of the header fields *)
ReadHeaderStep(bytes, s) ==
  LET cl == CopyrightLen(s.game_type)
      p == s.pos
  IN  IF ~ CanRead(bytes, p, HeaderLen(s.game_type))
      THEN Fail(s, IoError, EofPos(bytes, p))
      ELSE [s EXCEPT
             !.hdr_buf =
               [copyright_info |->
                  [side |-> IF s.game_type = "SWBG" THEN "Right" ELSE "Left",
                   bytes |-> Take(bytes, p, cl)],
                file_version |-> Take(bytes, p + cl, VERSION_LEN),
                file_type |-> Take(bytes, p + cl + VERSION_LEN, TYPE_LEN),
                table_count |-> U32(Take(bytes, p + cl + VERSION_LEN + TYPE_LEN, 4)),
                file_offset |-> U32(Take(bytes, p + cl + VERSION_LEN + TYPE_LEN + 4, 4))],
             !.pos = p + HeaderLen(s.game_type),
             !.pc = "validate"]

(* the three validate_str calls of the selected variant *)
HeaderValid(game_type, h) ==
  IF game_type = "SWBG"
  THEN /\ validate_str(h.copyright_info.bytes, EXPECTED_SWBG_COPYRIGHT)
       /\ validate_str(h.file_version, EXPECTED_SWBG_VERSION)
       /\ validate_str(h.file_type, EXPECTED_SWBG_TYPE)
  ELSE /\ validate_str(h.copyright_info.bytes, EXPECTED_AOE_COPYRIGHT)
       /\ validate_str(h.file_version, EXPECTED_AOE_VERSION)
       /\ validate_str(h.file_type, EXPECTED_AOE_TYPE)

ValidateStep(s) ==
  IF HeaderValid(s.game_type, s.hdr_buf)
  THEN [s EXCEPT !.header = s.hdr_buf, !.pc = "tables", !.table_index = 0]
  ELSE Fail(s, InvalidDrs, s.pos)

(* DrsTableHeader::read_from_file on the table pushed by the caller *)
TableHeaderRead(bytes, s) ==
  LET p == s.pos
      pushed == Append(s.tables, NewLogicalTable)
      tag == U32(Take(bytes, p, 4))
  IN  IF ~ CanRead(bytes, p, 4)
        THEN [Fail(s, IoError, EofPos(bytes, p)) EXCEPT !.tables = pushed]
      ELSE IF FileTypeFrom(tag) = "panic"
        THEN [Fail(s, FileTypePanic(tag), p + 4) EXCEPT !.tables = pushed]
      ELSE IF ~ CanRead(bytes, p, RECORD_LEN)
        THEN [Fail(s, IoError, EofPos(bytes, p)) EXCEPT !.tables = pushed]
      ELSE [s EXCEPT
             !.tables = Append(s.tables,
                          [NewLogicalTable EXCEPT !.header =
                             [file_type |-> FileTypeFrom(tag),
                              table_offset |-> U32(Take(bytes, p + 4, 4)),
                              file_count |-> U32(Take(bytes, p + 8, 4))]]),
             !.pos = p + RECORD_LEN,
             !.table_index = s.table_index + 1]

(* DrsFile::read_table_headers: one turn of the loop *)
TablesStep(bytes, s) ==
  IF s.table_index < s.header.table_count
  THEN TableHeaderRead(bytes, s)
  ELSE [s EXCEPT !.pc = "entries", !.table_index = 0, !.file_index = 0]

(* DrsTableEntry::read_from_file and the push *)
EntryRead(bytes, s) ==
  LET p == s.pos
      ti == s.table_index + 1
  IN  IF ~ CanRead(bytes, p, RECORD_LEN)
      THEN Fail(s, IoError, EofPos(bytes, p))
      ELSE [s EXCEPT
             !.tables[ti].entries =
               Append(@, [file_id |-> U32(Take(bytes, p, 4)),
                          file_offset |-> U32(Take(bytes, p + 4, 4)),
                          file_size |-> U32(Take(bytes, p + 8, 4))]),
             !.pos = p + RECORD_LEN,
             !.file_index = s.file_index + 1]

(* the outer loop one table short *)
EntriesStep_SkipLast(bytes, s) ==
  IF s.table_index + 1 < s.header.table_count
  THEN IF s.file_index < s.tables[s.table_index + 1].header.file_count
       THEN EntryRead(bytes, s)
       ELSE [s EXCEPT !.table_index = s.table_index + 1, !.file_index = 0]
  ELSE [s EXCEPT !.pc = "contents", !.table_index = 0, !.file_index = 0]

(* DrsFile::read_file_entry_headers: one turn of the nested loops *)
EntriesStep(bytes, s) ==
  IF s.table_index < s.header.table_count
  THEN IF s.file_index < s.tables[s.table_index + 1].header.file_count
       THEN EntryRead(bytes, s)
       ELSE [s EXCEPT !.table_index = s.table_index + 1, !.file_index = 0]
  ELSE [s EXCEPT !.pc = "contents", !.table_index = 0, !.file_index = 0]

(* no buffer pushed for an entry of size 0 *)
ContentRead_SkipEmpty(bytes, s) ==
  LET p == s.pos
      ti == s.table_index + 1
      file_size == s.tables[ti].entries[s.file_index + 1].file_size
  IN  IF ~ CanRead(bytes, p, file_size)
      THEN Fail(s, IoError, EofPos(bytes, p))
      ELSE IF file_size = 0
      THEN [s EXCEPT !.file_index = s.file_index + 1]
      ELSE [s EXCEPT
             !.tables[ti].contents = Append(@, Take(bytes, p, file_size)),
             !.pos = p + file_size,
             !.file_index = s.file_index + 1]

(* read in place of read_exact: the bytes that are left are taken as the content *)
ContentRead_Partial(bytes, s) ==
  LET p == s.pos
      ti == s.table_index + 1
      file_size == s.tables[ti].entries[s.file_index + 1].file_size
      got == IF CanRead(bytes, p, file_size) THEN file_size
             ELSE Max(Len(bytes) - p, 0)
  IN  [s EXCEPT
        !.tables[ti].contents = Append(@, Take(bytes, p, got)),
        !.pos = p + got,
        !.file_index = s.file_index + 1]

(* a seek to the entry's declared file_offset before the read *)
ContentRead_Seek(bytes, s) ==
  LET ti == s.table_index + 1
      p == s.tables[ti].entries[s.file_index + 1].file_offset
      file_size == s.tables[ti].entries[s.file_index + 1].file_size
  IN  IF ~ CanRead(bytes, p, file_size)
      THEN Fail(s, IoError, EofPos(bytes, p))
      ELSE [s EXCEPT
             !.tables[ti].contents = Append(@, Take(bytes, p, file_size)),
             !.pos = p + file_size,
             !.file_index = s.file_index + 1]

(* vec![0u8; file_size]; read_exact; push *)
ContentRead(bytes, s) ==
  LET p == s.pos
      ti == s.table_index + 1
      file_size == s.tables[ti].entries[s.file_index + 1].file_size
  IN  IF ~ CanRead(bytes, p, file_size)
      THEN Fail(s, IoError, EofPos(bytes, p))
      ELSE [s EXCEPT
             !.tables[ti].contents = Append(@, Take(bytes, p, file_size)),
             !.pos = p + file_size,
             !.file_index = s.file_index + 1]

(* DrsFile::read_file_contents: one turn of the nested loops *)
ContentsStep(bytes, s) ==
  IF s.table_index < s.header.table_count
  THEN IF s.file_index < Len(s.tables[s.table_index + 1].entries)
       THEN ContentRead(bytes, s)
       ELSE [s EXCEPT !.table_index = s.table_index + 1, !.file_index = 0]
  ELSE [s EXCEPT !.pc = "index", !.table_index = 0, !.file_index = 0]

(* for table in &mut drs_file.tables { table.populate_index_map() }; Ok *)
IndexStep(s) ==
  IF s.table_index < Len(s.tables)
  THEN [s EXCEPT !.tables[s.table_index + 1] = populate_index_map(@),
                 !.table_index = s.table_index + 1]
  ELSE [s EXCEPT !.pc = "done", !.result = OkResult]

(* DrsFile::read_from_file: the statement at s.pc *)
StepOf(bytes, ex, s) ==
  CASE s.pc = "open" -> OpenStep(bytes, ex, s)
    [] s.pc = "peek" -> PeekStep(bytes, s)
    [] s.pc = "rewind" -> RewindStep(s)
    [] s.pc = "detect" -> DetectStep(s)
    [] s.pc = "header" -> ReadHeaderStep(bytes, s)
    [] s.pc = "validate" -> ValidateStep(s)
    [] s.pc = "tables" -> TablesStep(bytes, s)
    [] s.pc = "entries" -> EntriesStep(bytes, s)
    [] s.pc = "contents" -> ContentsStep(bytes, s)
    [] s.pc = "index" -> IndexStep(s)
    [] OTHER -> s

(* the state of a load that has not started *)
StartState ==
  [pos |-> 0, pc |-> "open", type_str_buf |-> Zeros(DISCRIMINATOR_LEN),
   game_type |-> "unset", hdr_buf |-> EmptyHeader, header |-> EmptyHeader,
   tables |-> <<>>, table_index |-> 0, file_index |-> 0, result |-> NoResult]

(* a whole load, run to its end *)
RECURSIVE RunFrom(_, _, _)
RunFrom(bytes, ex, s) ==
  IF s.pc = "done" THEN s ELSE RunFrom(bytes, ex, StepOf(bytes, ex, s))

read_from_file(bytes, ex) == RunFrom(bytes, ex, StartState)

(* ------------------------------------------------------------------ *)
(* The files the loader is run on.  A file is written in the layout    *)
(* the loader reads (header, table headers, entries, contents) from a  *)
(* description d, and then possibly damaged.  The declared offsets are *)
(* the true ones when o < 0 and the value o otherwise.                 *)
(* ------------------------------------------------------------------ *)
RECURSIVE Concat(_)
Concat(ss) == IF Len(ss) = 0 THEN <<>> ELSE Head(ss) \o Concat(Tail(ss))

RECURSIVE SumTo(_, _)
SumTo(f, n) == IF n = 0 THEN 0 ELSE f[n] + SumTo(f, n - 1)

Declared(o, actual) == IF o < 0 THEN actual ELSE o

(* number of entries before table k; before entry j of table k: add j - 1 *)
EntriesBefore(d, k) == SumTo(d.fcs, k - 1)

EntryTotal(d) == SumTo(d.fcs, Len(d.fcs))

(* declared size of the g-th entry of the file *)
SizeOf(d, g) == (d.size0 + g) % (MaxSize + 1)

SizesUpTo(d, n) == SumTo([g \in 1..n |-> SizeOf(d, g)], n)

IdOf(d, j) == IF d.same_ids THEN 7 ELSE 6 + j

TagOf(d, k) == KnownTags[((d.shift + k - 1) % 4) + 1]

ContentStart(d) ==
  HeaderLen(d.variant) + RECORD_LEN * Len(d.fcs) + RECORD_LEN * EntryTotal(d)

Pad(lit, n) == lit \o Zeros(n - Len(lit))

HeaderBytes(d, o) ==
  (IF d.variant = "SWBG"
   THEN Pad(EXPECTED_SWBG_COPYRIGHT, SWBG_COPYRIGHT_LEN)
          \o EXPECTED_SWBG_VERSION \o Pad(EXPECTED_SWBG_TYPE, TYPE_LEN)
   ELSE Pad(EXPECTED_AOE_COPYRIGHT, AOE_COPYRIGHT_LEN)
          \o EXPECTED_AOE_VERSION \o Pad(EXPECTED_AOE_TYPE, TYPE_LEN))
  \o LE32(Len(d.fcs)) \o LE32(Declared(o, ContentStart(d)))

TableHeaderBytes(d, o, k) ==
  LE32(TagOf(d, k))
  \o LE32(Declared(o, HeaderLen(d.variant) + RECORD_LEN * Len(d.fcs)
                        + RECORD_LEN * EntriesBefore(d, k)))
  \o LE32(d.fcs[k])

EntryBytes(d, o, k, j) ==
  LET g == EntriesBefore(d, k) + j
  IN  LE32(IdOf(d, j))
      \o LE32(Declared(o, ContentStart(d) + SizesUpTo(d, g - 1)))
      \o LE32(SizeOf(d, g))

(* the content of the g-th entry: bytes no other entry holds *)
ContentBytes(d, g) == [i \in 1..SizeOf(d, g) |-> 16 * g + i]

WellFormedBytes(d, o) ==
  HeaderBytes(d, o)
  \o Concat([k \in 1..Len(d.fcs) |-> TableHeaderBytes(d, o, k)])
  \o Concat([k \in 1..Len(d.fcs) |->
               Concat([j \in 1..d.fcs[k] |-> EntryBytes(d, o, k, j)])])
  \o Concat([g \in 1..EntryTotal(d) |-> ContentBytes(d, g)])

(* bytes with the bytes of val written at offset p, the file growing if needed *)
Patch(bytes, p, val) ==
  [i \in 1..Max(Len(bytes), p + Len(val)) |->
     IF i > p /\ i <= p + Len(val) THEN val[i - p]
     ELSE IF i <= Len(bytes) THEN bytes[i] ELSE 0]

LiteralLen(variant) ==
  IF variant = "SWBG" THEN Len(EXPECTED_SWBG_COPYRIGHT) ELSE Len(EXPECTED_AOE_COPYRIGHT)

Damage(d, bytes) ==
  LET f == d.fault
      cl == CopyrightLen(d.variant)
  IN  CASE f.kind = "none" -> bytes
        [] f.kind = "missing" -> <<>>
        [] f.kind = "copyright" ->
             Patch(bytes, IF f.at = 0 THEN 0 ELSE LiteralLen(d.variant) - 1, <<88>>)
        [] f.kind = "pad" -> Patch(bytes, LiteralLen(d.variant), <<88>>)
        [] f.kind = "version" -> Patch(bytes, cl + VERSION_LEN - 1, <<49>>)
        [] f.kind = "type" -> Patch(bytes, cl + VERSION_LEN + 4, <<120>>)
        [] f.kind = "patch" ->
             Patch(bytes,
                   IF f.at = 0 THEN DISCRIMINATOR_OFFSET
                   ELSE HeaderLen(d.variant) + RECORD_LEN * (f.at - 1),
                   f.val)
        [] f.kind = "cut" -> SubSeq(bytes, 1, Len(bytes) - f.at)

Build(d, o) == Damage(d, WellFormedBytes(d, o))

(* "swbg", "swb " and a buffer that is not UTF-8 *)
PatchVals == {<<115, 119, 98, 103>>, <<115, 119, 98, 32>>, <<255, 32, 32, 32>>}

Fault(kind, at, val) == [kind |-> kind, at |-> at, val |-> val]

Faults(tc) ==
  {Fault(k, 0, <<>>) : k \in {"missing", "pad", "version", "type"}}
  \cup {Fault("copyright", a, <<>>) : a \in {0, 1}}
  \cup {Fault("patch", k, v) : k \in 0..tc, v \in PatchVals}
  \cup {Fault("cut", n, <<>>) : n \in 1..MaxCut}

Shapes == UNION {[1..n -> 0..MaxFiles] : n \in 0..MaxTables}

Intact ==
  {[variant |-> v, fcs |-> f, shift |-> sh, same_ids |-> b, size0 |-> z,
    fault |-> Fault("none", 0, <<>>)] :
     v \in {"AOE", "SWBG"}, f \in Shapes, sh \in 0..3, b \in BOOLEAN,
     z \in 0..MaxSize}

Damaged ==
  UNION {{[variant |-> v, fcs |-> f, shift |-> 0, same_ids |-> FALSE,
           size0 |-> MaxSize, fault |-> ft] : ft \in Faults(Len(f))} :
            v \in {"AOE", "SWBG"}, f \in Shapes}

Inputs == Intact \cup Damaged

(* the values a sibling file declares in every offset field *)
AltOffsets == {0, 64}

(* ------------------------------------------------------------------ *)
(* State                                                               *)
(* ------------------------------------------------------------------ *)
VARIABLES
  file,          \* the bytes of the file at file_name
  exists,        \* whether File::open succeeds
  alt,           \* a file that differs from file in declared offsets only
  pos,           \* the stream position of the open File
  pc,            \* the statement of DrsFile::read_from_file to run next
  type_str_buf,  \* DrsHeader::read_from_file: the 4 peeked bytes
  game_type,     \* DrsHeader::read_from_file: the selected variant
  hdr_buf,       \* DrsHeader::read_from_file: the fields read so far
  header,        \* drs_file.header
  tables,        \* drs_file.tables
  table_index,   \* the loops' table_index
  file_index,    \* the loops' file index
  result         \* what read_from_file returned, or that it panicked

vars == <<file, exists, alt, pos, pc, type_str_buf, game_type, hdr_buf, header,
          tables, table_index, file_index, result>>

State ==
  [pos |-> pos, pc |-> pc, type_str_buf |-> type_str_buf, game_type |-> game_type,
   hdr_buf |-> hdr_buf, header |-> header, tables |-> tables,
   table_index |-> table_index, file_index |-> file_index, result |-> result]

Becomes(n) ==
  /\ pos' = n.pos
  /\ pc' = n.pc
  /\ type_str_buf' = n.type_str_buf
  /\ game_type' = n.game_type
  /\ hdr_buf' = n.hdr_buf
  /\ header' = n.header
  /\ tables' = n.tables
  /\ table_index' = n.table_index
  /\ file_index' = n.file_index
  /\ result' = n.result
  /\ UNCHANGED <<file, exists, alt>>

Init ==
  /\ \E d \in Inputs, o \in AltOffsets :
       /\ file = Build(d, -1)
       /\ alt = Build(d, o)
       /\ exists = (d.fault.kind # "missing")
  /\ pos = StartState.pos
  /\ pc = StartState.pc
  /\ type_str_buf = StartState.type_str_buf
  /\ game_type = StartState.game_type
  /\ hdr_buf = StartState.hdr_buf
  /\ header = StartState.header
  /\ tables = StartState.tables
  /\ table_index = StartState.table_index
  /\ file_index = StartState.file_index
  /\ result = StartState.result

Open == pc = "open" /\ Becomes(OpenStep(file, exists, State))

Peek == pc = "peek" /\ Becomes(PeekStep(file, State))

Rewind == pc = "rewind" /\ Becomes(RewindStep(State))

Detect == pc = "detect" /\ Becomes(DetectStep(State))

ReadHeader == pc = "header" /\ Becomes(ReadHeaderStep(file, State))

Validate == pc = "validate" /\ Becomes(ValidateStep(State))

ReadTableHeaders == pc = "tables" /\ Becomes(TablesStep(file, State))

ReadFileEntryHeaders == pc = "entries" /\ Becomes(EntriesStep(file, State))

ReadFileContents == pc = "contents" /\ Becomes(ContentsStep(file, State))

PopulateIndexMaps == pc = "index" /\ Becomes(IndexStep(State))

Next ==
  \/ Open
  \/ Peek
  \/ Rewind
  \/ Detect
  \/ ReadHeader
  \/ Validate
  \/ ReadTableHeaders
  \/ ReadFileEntryHeaders
  \/ ReadFileContents
  \/ PopulateIndexMaps

Spec == Init /\ [][Next]_vars

(* ------------------------------------------------------------------ *)
(* Vocabulary of the claims                                            *)
(* ------------------------------------------------------------------ *)
Returned == pc = "done" /\ result.kind = "Ok"

TableRange == 1..Len(tables)

(* the entries of table t that carry file_id *)
Bearing(t, file_id) == {j \in 1..Len(t.entries) : t.entries[j].file_id = file_id}

(* entry j is the last entry of table t with its id *)
LastWithItsId(t, j) == \A k \in Bearing(t, t.entries[j].file_id) : k <= j

SetMax(S) == CHOOSE m \in S : \A k \in S : k <= m

(* the ids the claims look up: every id a file of the model carries, and more *)
ProbeIds == 0..12

(* bytes holds lit at offset off, over the whole length of lit *)
Holds(bytes, off, lit) ==
  /\ off + Len(lit) <= Len(bytes)
  /\ \A i \in 1..Len(lit) : bytes[off + i] = lit[i]

(* the file's header fields all hold the literals of the variant *)
LiteralsHold(bytes, variant) ==
  IF variant = "SWBG"
  THEN /\ Holds(bytes, 0, EXPECTED_SWBG_COPYRIGHT)
       /\ Holds(bytes, SWBG_COPYRIGHT_LEN, EXPECTED_SWBG_VERSION)
       /\ Holds(bytes, SWBG_COPYRIGHT_LEN + VERSION_LEN, EXPECTED_SWBG_TYPE)
  ELSE /\ Holds(bytes, 0, EXPECTED_AOE_COPYRIGHT)
       /\ Holds(bytes, AOE_COPYRIGHT_LEN, EXPECTED_AOE_VERSION)
       /\ Holds(bytes, AOE_COPYRIGHT_LEN + VERSION_LEN, EXPECTED_AOE_TYPE)

(* C1: in every archive load returns, each table holds as many entries and
   as many content buffers as its header's file_count says *)
C1_ParallelLengths ==
  Returned =>
    \A i \in TableRange :
      /\ Len(tables[i].entries) = tables[i].header.file_count
      /\ Len(tables[i].contents) = tables[i].header.file_count

(* a returned archive with a table of two files, one of them empty, and an
   empty table *)
C1_Witness ==
  /\ Returned
  /\ Len(tables) = 2
  /\ tables[1].header.file_count = 2
  /\ \E j \in 1..2 : tables[1].entries[j].file_size = 0
  /\ tables[2].header.file_count = 0

(* C2: find_content returns the content of the last entry of the table that
   carries the id, and nothing for an id no entry of the table carries *)
C2_LastEntryWins ==
  Returned =>
    \A i \in TableRange : \A id \in ProbeIds :
      find_file_contents(tables[i], id) =
        IF Bearing(tables[i], id) = {} THEN None
        ELSE Some(tables[i].contents[SetMax(Bearing(tables[i], id))])

(* a returned table whose two entries share an id and hold different contents *)
C2_Witness ==
  /\ Returned
  /\ \E i \in TableRange :
       /\ Len(tables[i].entries) = 2
       /\ tables[i].entries[1].file_id = tables[i].entries[2].file_id
       /\ tables[i].contents[1] # tables[i].contents[2]
       /\ find_file_contents(tables[i], tables[i].entries[1].file_id)
            = Some(tables[i].contents[2])
       /\ find_file_contents(tables[i], tables[i].entries[1].file_id + 1) = None

(* every buffer a table holds has the length its entry declares *)
NoTruncatedBuffer ==
  \A i \in TableRange : \A j \in 1..Len(tables[i].contents) :
    Len(tables[i].contents[j]) = tables[i].entries[j].file_size

(* the lookup of the last entry with an id gives a buffer of file_size bytes *)
LookupLengths ==
  Returned =>
    \A i \in TableRange : \A j \in 1..Len(tables[i].entries) :
      LastWithItsId(tables[i], j) =>
        LET found == find_file_contents(tables[i], tables[i].entries[j].file_id)
        IN  found # None /\ Len(found[1]) = tables[i].entries[j].file_size

(* the content of the next entry is about to be read and the stream is short *)
ShortContentRead ==
  /\ pc = "contents"
  /\ table_index < header.table_count
  /\ file_index < Len(tables[table_index + 1].entries)
  /\ Len(file) - pos < tables[table_index + 1].entries[file_index + 1].file_size

(* C3: content buffers are never truncated: lookups give file_size bytes, no
   table ever holds a shorter buffer, and a short read of a content ends the
   load with an I/O error *)
C3_NoTruncation ==
  /\ [](LookupLengths /\ NoTruncatedBuffer)
  /\ [][ShortContentRead =>
          (pc' = "done" /\ result' = IoError /\ tables' = tables)]_vars

(* a load that ended with an I/O error in the middle of the contents *)
C3_Witness ==
  /\ pc = "done"
  /\ result = IoError
  /\ Len(tables) >= 1
  /\ Len(tables) = header.table_count
  /\ \A i \in TableRange : Len(tables[i].entries) = tables[i].header.file_count
  /\ \E i \in TableRange : Len(tables[i].contents) < Len(tables[i].entries)
  /\ pos = Len(file)

(* the load ended in the table header at table_index, whose tag is unknown *)
UnknownTagRead ==
  /\ pc = "done"
  /\ game_type # "unset"
  /\ header = hdr_buf
  /\ table_index < header.table_count
  /\ Len(tables) = table_index + 1
  /\ LET p == HeaderLen(game_type) + RECORD_LEN * table_index
     IN  /\ CanRead(file, p, 4)
         /\ FileTypeFrom(U32(Take(file, p, 4))) = "panic"

(* C4: a table header with an unknown file_type tag makes load return an
   UnknownFileType error that carries the tag *)
C4_UnknownFileTypeReturned ==
  UnknownTagRead =>
    /\ result.kind = "UnknownFileType"
    /\ result.tag = U32(Take(file, HeaderLen(game_type) + RECORD_LEN * table_index, 4))

(* the variant has been selected and the load is over *)
SelectedAndOver == pc = "done" /\ game_type # "unset"

(* C5 as stated: once the variant is selected, a copyright, version or type
   text that differs from the variant's literal makes load fail with
   FormatInvalid *)
C5_MismatchIsFormatInvalid ==
  (SelectedAndOver /\ ~ LiteralsHold(file, game_type)) => result = InvalidDrs

(* C5 amended: once the variant is selected, a copyright, version or type
   text that differs from the variant's literal makes load fail with
   FormatInvalid when the file holds the variant's whole header (64 bytes
   for the base variant, 84 for the expansion), and with an I/O error when
   the file ends before the header does *)
C5_MismatchAfterFullHeader ==
  (SelectedAndOver /\ ~ LiteralsHold(file, game_type)) =>
    IF Len(file) >= HeaderLen(game_type)
    THEN result = InvalidDrs
    ELSE result = IoError

(* a file of at least 84 bytes with "swbg" at offset 64 and a copyright
   block that is not the expansion's, rejected as invalid *)
C5_Witness ==
  /\ SelectedAndOver
  /\ game_type = "SWBG"
  /\ Take(file, DISCRIMINATOR_OFFSET, DISCRIMINATOR_LEN) = EXPECTED_SWBG_TYPE
  /\ Len(file) >= HeaderLen("SWBG")
  /\ ~ Holds(file, 0, EXPECTED_SWBG_COPYRIGHT)
  /\ result = InvalidDrs

(* the sum of the third field of n records of 12 bytes that start at offset start *)
RECURSIVE ThirdFields(_, _, _)
ThirdFields(bytes, start, n) ==
  IF n = 0 THEN 0
  ELSE U32(Take(bytes, start + RECORD_LEN * (n - 1) + 8, 4))
         + ThirdFields(bytes, start, n - 1)

(* bytes is a base-variant header followed by exactly the table headers,
   entries and content bytes it declares *)
WellFormedBase(bytes) ==
  /\ LiteralsHold(bytes, "AOE")
  /\ Len(bytes) >= HeaderLen("AOE")
  /\ LET tc == U32(Take(bytes, HeaderLen("AOE") - 8, 4))
         es == HeaderLen("AOE") + RECORD_LEN * tc
     IN  /\ Len(bytes) >= es
         /\ \A k \in 1..tc :
              FileTypeFrom(U32(Take(bytes, HeaderLen("AOE") + RECORD_LEN * (k - 1), 4)))
                # "panic"
         /\ LET n == ThirdFields(bytes, HeaderLen("AOE"), tc)
                cs == es + RECORD_LEN * n
            IN  /\ Len(bytes) >= cs
                /\ Len(bytes) = cs + ThirdFields(bytes, es, n)

(* C6: load succeeds on every well-formed base-variant file, whatever its
   table_count (zero included), and reports the base variant *)
C6_WellFormedBaseLoads ==
  (pc = "done" /\ exists /\ WellFormedBase(file)) =>
    (result = OkResult /\ GameTypeOf(header) = "AOE")

(* header validated, every table, entry, content and index in place *)
FullyPopulated ==
  /\ header = hdr_buf
  /\ HeaderValid(GameTypeOf(header), header)
  /\ Len(tables) = header.table_count
  /\ \A i \in TableRange :
       /\ Len(tables[i].entries) = tables[i].header.file_count
       /\ Len(tables[i].contents) = tables[i].header.file_count
       /\ DOMAIN tables[i].index_map
            = {tables[i].entries[j].file_id : j \in 1..Len(tables[i].entries)}

(* C7: every load ends either with a fully populated archive or with an
   error value returned to the caller *)
C7_ArchiveOrErrorValue ==
  pc = "done" =>
    \/ result.kind = "Ok" /\ FullyPopulated
    \/ result.kind \in {"IoError", "InvalidDrs", "UnknownFileType"}

(* four bytes were found at offset 64 and the detection step is over *)
DiscriminatorSeen ==
  /\ exists
  /\ CanRead(file, DISCRIMINATOR_OFFSET, DISCRIMINATOR_LEN)
  /\ pc \notin {"open", "peek", "rewind", "detect"}

(* C8: whatever four bytes sit at offset 64, detection selects the expansion
   variant exactly when they spell "swbg", and the base variant otherwise *)
C8_DetectionNeverRejects ==
  DiscriminatorSeen =>
    LET b == Take(file, DISCRIMINATOR_OFFSET, DISCRIMINATOR_LEN)
    IN  /\ (game_type = "SWBG") <=> (b = EXPECTED_SWBG_TYPE)
        /\ (b # EXPECTED_SWBG_TYPE) => (game_type = "AOE")

(* numbers of entries and of content bytes held by the tables so far *)
RECURSIVE EntriesHeld(_)
EntriesHeld(tabs) ==
  IF Len(tabs) = 0 THEN 0 ELSE Len(Head(tabs).entries) + EntriesHeld(Tail(tabs))

RECURSIVE ContentBytesHeld(_)
ContentBytesHeld(tabs) ==
  IF Len(tabs) = 0 THEN 0
  ELSE Len(Concat(Head(tabs).contents)) + ContentBytesHeld(Tail(tabs))

(* no stage has started before the one before it was over, and within a
   stage the tables are served in their declared order *)
StageOrder ==
  /\ (pc \in {"entries", "contents", "index"}
        \/ \E i \in TableRange : Len(tables[i].entries) > 0)
       => Len(tables) = header.table_count
  /\ (pc \in {"contents", "index"}
        \/ \E i \in TableRange : Len(tables[i].contents) > 0)
       => \A i \in TableRange :
            Len(tables[i].entries) = tables[i].header.file_count
  /\ (pc = "index" \/ \E i \in TableRange : DOMAIN tables[i].index_map # {})
       => \A i \in TableRange :
            Len(tables[i].contents) = Len(tables[i].entries)
  /\ \A i, j \in TableRange :
       (i < j /\ Len(tables[j].entries) > 0)
         => Len(tables[i].entries) = tables[i].header.file_count
  /\ \A i, j \in TableRange :
       (i < j /\ Len(tables[j].contents) > 0)
         => Len(tables[i].contents) = Len(tables[i].entries)

(* each stage reads at the end of what the stages before it have read *)
StagePositions ==
  /\ pc = "rewind" => pos = DISCRIMINATOR_OFFSET + DISCRIMINATOR_LEN
  /\ pc \in {"detect", "header"} => pos = 0
  /\ pc = "tables" => pos = HeaderLen(game_type) + RECORD_LEN * Len(tables)
  /\ pc = "entries" =>
       pos = HeaderLen(game_type) + RECORD_LEN * Len(tables)
               + RECORD_LEN * EntriesHeld(tables)
  /\ pc = "contents" =>
       pos = HeaderLen(game_type) + RECORD_LEN * Len(tables)
               + RECORD_LEN * EntriesHeld(tables) + ContentBytesHeld(tables)

(* C9: the only backward motion of the stream is the rewind after the peek;
   table headers, entries, contents and indexes follow one another, each
   stage complete before the next and the tables in declared order *)
C9_StrictOrder ==
  /\ [](StageOrder /\ StagePositions)
  /\ [][pos' >= pos \/ (pc = "rewind" /\ pos' = 0)]_vars

(* file_counts 3 and 0: the three contents of the first table have been read
   and the second, empty, table is next *)
C9_Witness ==
  /\ pc = "contents"
  /\ Len(tables) = 2
  /\ tables[1].header.file_count = 3
  /\ tables[2].header.file_count = 0
  /\ Len(tables[1].entries) = 3
  /\ Len(tables[1].contents) = 3
  /\ table_index = 1

(* what a caller can see of a table, the declared offsets left out *)
Visible(t) ==
  [file_type |-> t.header.file_type,
   file_count |-> t.header.file_count,
   entries |-> [j \in 1..Len(t.entries) |->
                  [file_id |-> t.entries[j].file_id,
                   file_size |-> t.entries[j].file_size]],
   contents |-> t.contents,
   found |-> [id \in ProbeIds |-> find_file_contents(t, id)]]

(* the outcome of a load that ended in loader state s *)
Outcome(s) ==
  [result |-> s.result,
   archive |->
     IF s.result.kind = "Ok"
     THEN Some([game_type |-> GameTypeOf(s.header),
                table_count |-> s.header.table_count,
                tables |-> [i \in 1..Len(s.tables) |-> Visible(s.tables[i])],
                by_type |-> [ft \in {"Binary", "Slp", "Shp", "Wav"} |->
                               LET r == find_table(s.tables, ft)
                               IN  IF r = None THEN None ELSE Some(Visible(r[1]))]])
     ELSE None]

(* C10: the outcome of load does not depend on the declared offsets: a file
   that differs in content_base_offset, table_offset and file_offset fields
   only loads to the same outcome *)
C10_OffsetsAdvisory ==
  pc = "done" => Outcome(State) = Outcome(read_from_file(alt, exists))

(* an archive with non-empty content was returned, and the sibling file
   declares other offsets *)
C10_Witness ==
  /\ Returned
  /\ alt # file
  /\ \E i \in TableRange : \E j \in 1..Len(tables[i].entries) :
       /\ tables[i].entries[j].file_offset > 0
       /\ Len(tables[i].contents[j]) > 0

====
